---- MODULE Spec2Model ----
(***************************************************************************)
(* Model of the layered (overlay) filesystem of silverbullet-rs:           *)
(* fs/layer.rs composes read-only layers over one writable root.           *)
(* Sources are trait objects; they are modelled by the in-memory           *)
(* filesystem of the test module of fs/layer.rs, with an injected fault     *)
(* per call standing for a backend call that returns Err.                  *)
(***************************************************************************)
EXTENDS Integers, Sequences, FiniteSets, TLC

\* ---------------------------------------------------------------- bounds
MaxLayers == 2

\* ------------------------------------------------------------ data model
\* the path keys of the model, in the lexicographic order of String::cmp
PathNames == <<"a.txt", "b.txt">>

Paths == {PathNames[i] : i \in 1..Len(PathNames)}

\* position of a name in the lexicographic order of String::cmp
Rank(name) == CHOOSE i \in 1..Len(PathNames) : PathNames[i] = name

ErrKinds == {"NotFound", "PermissionDenied", "Io", "Other"}

Faults == ErrKinds \cup {"none"}

Ok(v) == [ok |-> TRUE, val |-> v]

Err(kind) == [ok |-> FALSE, err |-> kind]

FileMeta(name, created, perm, content_type, last_modified, size) ==
    [name |-> name, created |-> created, perm |-> perm,
     content_type |-> content_type, last_modified |-> last_modified,
     size |-> size]

\* IncomingFileMeta::default(): every Option is None (the empty set)
IncomingFileMeta == [created |-> {}, perm |-> {}, content_type |-> {},
                     last_modified |-> {}, size |-> {}]

unwrap_or(opt, default) == IF opt = {} THEN default ELSE CHOOSE x \in opt : TRUE

\* the byte sequences a caller writes: the empty stream and one byte
PutData == {<<>>, <<0>>}

\* the bytes held by the k-th added layer (distinct from every written
\* sequence and from every other layer, also in length)
LayerContent(k) == [i \in 1..(k + 1) |-> k]

\* ------------------------------------------------- MemoryFs (test double)
MemoryFs_new == [x \in {} |-> 0]

MemoryFs_with_file(files, name, content) ==
    [x \in (DOMAIN files) \cup {name} |->
        IF x = name
        THEN [data |-> content,
              meta |-> FileMeta(name, 0, "rw", "text/plain", 0, Len(content))]
        ELSE files[x]]

\* keys of a path set in ascending order
RECURSIVE Ascending(_)
Ascending(S) ==
    IF S = {} THEN <<>>
    ELSE LET m == CHOOSE x \in S : \A y \in S : Rank(x) <= Rank(y)
         IN <<m>> \o Ascending(S \ {m})

MemoryFs_list(files) ==
    LET keys == Ascending(DOMAIN files)
    IN Ok([i \in 1..Len(keys) |-> files[keys[i]].meta])

MemoryFs_get(files, path) ==
    IF path \in DOMAIN files
    THEN Ok([content |-> files[path].data, meta |-> files[path].meta])
    ELSE Err("NotFound")

MemoryFs_meta(files, path) ==
    IF path \in DOMAIN files
    THEN Ok(files[path].meta)
    ELSE Err("NotFound")

\* returns the new map and the result
MemoryFs_put(files, path, data, meta) ==
    LET file_meta == FileMeta(path,
                              unwrap_or(meta.created, 0),
                              unwrap_or(meta.perm, "rw"),
                              unwrap_or(meta.content_type, "text/plain"),
                              unwrap_or(meta.last_modified, 0),
                              Len(data))
    IN [files |-> [x \in (DOMAIN files) \cup {path} |->
                      IF x = path THEN [data |-> data, meta |-> file_meta]
                      ELSE files[x]],
        result |-> Ok(file_meta)]

MemoryFs_delete(files, path) ==
    IF path \in DOMAIN files
    THEN [files |-> [x \in (DOMAIN files) \ {path} |-> files[x]],
          result |-> Ok("unit")]
    ELSE [files |-> files, result |-> Err("NotFound")]

\* ------------------------------------- a source behind the trait object
\* A call on a source returns what the backend holds, or the Err the
\* backend reports for this call (fault), in which case it changes nothing.
\* A listing may name every entry twice (twice = TRUE).
Source_list(files, fault, twice) ==
    IF fault # "none" THEN Err(fault)
    ELSE LET l == MemoryFs_list(files).val
         IN Ok(IF twice THEN l \o l ELSE l)

Source_get(files, path, fault) ==
    IF fault # "none" THEN Err(fault) ELSE MemoryFs_get(files, path)

Source_meta(files, path, fault) ==
    IF fault # "none" THEN Err(fault) ELSE MemoryFs_meta(files, path)

Source_put(files, path, data, meta, fault) ==
    IF fault # "none" THEN [files |-> files, result |-> Err(fault)]
    ELSE MemoryFs_put(files, path, data, meta)

Source_delete(files, path, fault) ==
    IF fault # "none" THEN [files |-> files, result |-> Err(fault)]
    ELSE MemoryFs_delete(files, path)

\* a recorded call on a source: src = 0 is the root, src = i is layers[i]
Call(src, method, res) == [src |-> src, method |-> method, res |-> res]

\* ------------------------------------------- layer::Filesystem (overlay)
\* HashMap::insert
insert(all_files, file) ==
    [x \in (DOMAIN all_files) \cup {file.name} |->
        IF x = file.name THEN file ELSE all_files[x]]

\* variant: only the first file of a listing is inserted
insert_all_first_only(all_files, files) ==
    IF files = <<>> THEN all_files ELSE insert(all_files, Head(files))

\* for file in files { all_files.insert(file.name.clone(), file); }
RECURSIVE insert_all(_, _)
insert_all(all_files, files) ==
    IF files = <<>> THEN all_files
    ELSE insert_all(insert(all_files, Head(files)), Tail(files))

\* all_files.into_values().collect() followed by sort_by name
sort_by_name(all_files) ==
    LET keys == Ascending(DOMAIN all_files)
    IN [i \in 1..Len(keys) |-> all_files[keys[i]]]

\* for layer in self.layers.iter().rev(), from layers[i] down to layers[1]
RECURSIVE list_layers(_, _, _, _, _)
list_layers(layers, faults, twice, i, acc) ==
    IF i = 0 THEN acc
    ELSE LET r == Source_list(layers[i], faults[i], twice)
         IN list_layers(layers, faults, twice, i - 1,
                [all_files |-> IF r.ok THEN insert_all(acc.all_files, r.val)
                               ELSE acc.all_files,
                 calls |-> Append(acc.calls, Call(i, "list", r))])

\* flatten a sequence of listings
RECURSIVE concat(_)
concat(lists) == IF lists = <<>> THEN <<>> ELSE Head(lists) \o concat(Tail(lists))

\* the calls layered list makes: the root, then layers[n] down to layers[1]
list_calls(layers, root, faults, twice) ==
    [k \in 1..(Len(layers) + 1) |->
        IF k = 1 THEN Call(0, "list", Source_list(root, faults[0], twice))
        ELSE LET i == Len(layers) + 2 - k
             IN Call(i, "list", Source_list(layers[i], faults[i], twice))]

\* variant: the listings are collected in a Vec, without the HashMap
layer_list_vec(layers, root, faults, twice) ==
    LET calls == list_calls(layers, root, faults, twice)
    IN [result |-> Ok(concat([k \in 1..Len(calls) |->
                                IF calls[k].res.ok THEN calls[k].res.val
                                ELSE <<>>])),
        calls |-> calls]

\* variant: the first failing source aborts the listing (list().await?)
layer_list_propagate(layers, root, faults, twice) ==
    LET calls == list_calls(layers, root, faults, twice)
        failed == {k \in 1..Len(calls) : ~calls[k].res.ok}
    IN IF failed = {}
       THEN layer_list_vec(layers, root, faults, twice)
       ELSE LET k == CHOOSE x \in failed : \A y \in failed : x <= y
            IN [result |-> calls[k].res, calls |-> SubSeq(calls, 1, k)]

layer_list(layers, root, faults, twice) ==
    LET r0 == Source_list(root, faults[0], twice)
        acc0 == [all_files |-> IF r0.ok THEN insert_all(MemoryFs_new, r0.val)
                               ELSE MemoryFs_new,
                 calls |-> <<Call(0, "list", r0)>>]
        acc == list_layers(layers, faults, twice, Len(layers), acc0)
    IN [result |-> Ok(sort_by_name(acc.all_files)), calls |-> acc.calls]

RECURSIVE get_layers(_, _, _, _, _, _)
get_layers(layers, root, path, faults, i, calls) ==
    IF i = 0
    THEN LET r == Source_get(root, path, faults[0])
         IN [result |-> r, calls |-> Append(calls, Call(0, "get", r))]
    ELSE LET r == Source_get(layers[i], path, faults[i])
         IN IF r.ok
            THEN [result |-> r, calls |-> Append(calls, Call(i, "get", r))]
            ELSE get_layers(layers, root, path, faults, i - 1,
                            Append(calls, Call(i, "get", r)))

\* variant: a layer's error other than NotFound is returned at once
RECURSIVE get_layers_propagate(_, _, _, _, _, _)
get_layers_propagate(layers, root, path, faults, i, calls) ==
    IF i = 0
    THEN LET r == Source_get(root, path, faults[0])
         IN [result |-> r, calls |-> Append(calls, Call(0, "get", r))]
    ELSE LET r == Source_get(layers[i], path, faults[i])
         IN IF r.ok \/ r.err # "NotFound"
            THEN [result |-> r, calls |-> Append(calls, Call(i, "get", r))]
            ELSE get_layers_propagate(layers, root, path, faults, i - 1,
                                      Append(calls, Call(i, "get", r)))

layer_get_propagate(layers, root, path, faults) ==
    get_layers_propagate(layers, root, path, faults, Len(layers), <<>>)

\* variant: the layers are scanned in the order they were added
RECURSIVE get_layers_forward(_, _, _, _, _, _)
get_layers_forward(layers, root, path, faults, i, calls) ==
    IF i > Len(layers)
    THEN LET r == Source_get(root, path, faults[0])
         IN [result |-> r, calls |-> Append(calls, Call(0, "get", r))]
    ELSE LET r == Source_get(layers[i], path, faults[i])
         IN IF r.ok
            THEN [result |-> r, calls |-> Append(calls, Call(i, "get", r))]
            ELSE get_layers_forward(layers, root, path, faults, i + 1,
                                    Append(calls, Call(i, "get", r)))

layer_get_forward(layers, root, path, faults) ==
    get_layers_forward(layers, root, path, faults, 1, <<>>)

layer_get(layers, root, path, faults) ==
    get_layers(layers, root, path, faults, Len(layers), <<>>)

RECURSIVE meta_layers(_, _, _, _, _, _)
meta_layers(layers, root, path, faults, i, calls) ==
    IF i = 0
    THEN LET r == Source_meta(root, path, faults[0])
         IN [result |-> r, calls |-> Append(calls, Call(0, "meta", r))]
    ELSE LET r == Source_meta(layers[i], path, faults[i])
         IN IF r.ok
            THEN [result |-> r, calls |-> Append(calls, Call(i, "meta", r))]
            ELSE meta_layers(layers, root, path, faults, i - 1,
                             Append(calls, Call(i, "meta", r)))

\* variant: meta asks the root only
layer_meta_root_only(layers, root, path, faults) ==
    LET r == Source_meta(root, path, faults[0])
    IN [result |-> r, calls |-> <<Call(0, "meta", r)>>]

\* variant: with layers present, meta never falls back to the root
layer_meta_no_fallback(layers, root, path, faults) ==
    LET r == meta_layers(layers, root, path, faults, Len(layers), <<>>)
    IN IF Len(layers) > 0 /\ r.calls[Len(r.calls)].src = 0
       THEN [result |-> Err("NotFound"), calls |-> SubSeq(r.calls, 1, Len(r.calls) - 1)]
       ELSE r

\* variant: meta asks every source and then picks the answer
layer_meta_probe_all(layers, root, path, faults) ==
    LET r == meta_layers(layers, root, path, faults, Len(layers), <<>>)
        n == Len(layers)
    IN [result |-> r.result,
        calls |-> [k \in 1..(n + 1) |->
                      LET src == n + 1 - k
                      IN Call(src, "meta",
                              Source_meta(IF src = 0 THEN root ELSE layers[src],
                                          path, faults[src]))]]

\* variant: a layer's PermissionDenied ends the scan and is returned
RECURSIVE meta_layers_denied(_, _, _, _, _, _)
meta_layers_denied(layers, root, path, faults, i, calls) ==
    IF i = 0
    THEN LET r == Source_meta(root, path, faults[0])
         IN [result |-> r, calls |-> Append(calls, Call(0, "meta", r))]
    ELSE LET r == Source_meta(layers[i], path, faults[i])
         IN IF r.ok \/ r.err = "PermissionDenied"
            THEN [result |-> r, calls |-> Append(calls, Call(i, "meta", r))]
            ELSE meta_layers_denied(layers, root, path, faults, i - 1,
                                    Append(calls, Call(i, "meta", r)))

layer_meta_denied(layers, root, path, faults) ==
    meta_layers_denied(layers, root, path, faults, Len(layers), <<>>)

layer_meta(layers, root, path, faults) ==
    meta_layers(layers, root, path, faults, Len(layers), <<>>)

\* variant: put also writes the entry into the last-added layer
layer_put_through(layers, root, path, data, meta, faults) ==
    LET r == Source_put(root, path, data, meta, faults[0])
        n == Len(layers)
    IN [layers |-> IF n > 0 /\ r.result.ok
                   THEN [layers EXCEPT ![n] =
                            MemoryFs_put(layers[n], path, data, meta).files]
                   ELSE layers,
        root |-> r.files, result |-> r.result,
        calls |-> <<Call(0, "put", r.result)>>]

\* variant: the root's put is answered but its store keeps the old entry
layer_put_discard(layers, root, path, data, meta, faults) ==
    LET r == Source_put(root, path, data, meta, faults[0])
    IN [layers |-> layers, root |-> root, result |-> r.result,
        calls |-> <<Call(0, "put", r.result)>>]

\* variant: put is refused for a path that a layer holds
layer_put_unshadowed(layers, root, path, data, meta, faults) ==
    IF \E i \in 1..Len(layers) : path \in DOMAIN layers[i]
    THEN [layers |-> layers, root |-> root,
          result |-> Err("PermissionDenied"), calls |-> <<>>]
    ELSE LET r == Source_put(root, path, data, meta, faults[0])
         IN [layers |-> layers, root |-> r.files, result |-> r.result,
             calls |-> <<Call(0, "put", r.result)>>]

\* returns the new layers and root, the result and the calls made
layer_put(layers, root, path, data, meta, faults) ==
    LET r == Source_put(root, path, data, meta, faults[0])
    IN [layers |-> layers, root |-> r.files, result |-> r.result,
        calls |-> <<Call(0, "put", r.result)>>]

\* variant: the root's error is swallowed
layer_delete_swallow(layers, root, path, faults) ==
    LET r == Source_delete(root, path, faults[0])
    IN [layers |-> layers, root |-> r.files, result |-> Ok("unit"),
        calls |-> <<Call(0, "delete", r.result)>>]

\* variant: delete removes the entry from every layer too
layer_delete_everywhere(layers, root, path, faults) ==
    LET r == Source_delete(root, path, faults[0])
    IN [layers |-> IF r.result.ok
                   THEN [i \in 1..Len(layers) |->
                            MemoryFs_delete(layers[i], path).files]
                   ELSE layers,
        root |-> r.files, result |-> r.result,
        calls |-> <<Call(0, "delete", r.result)>>]

\* variant: the root's delete is answered but its store keeps the entry
layer_delete_keep(layers, root, path, faults) ==
    LET r == Source_delete(root, path, faults[0])
    IN [layers |-> layers, root |-> root, result |-> r.result,
        calls |-> <<Call(0, "delete", r.result)>>]

\* variant: when the root has no entry, the last-added layer holding the
\* path loses its entry instead
layer_delete_fallthrough(layers, root, path, faults) ==
    LET r == Source_delete(root, path, faults[0])
        H == {i \in 1..Len(layers) : path \in DOMAIN layers[i]}
    IN IF ~r.result.ok /\ r.result.err = "NotFound" /\ H # {}
       THEN LET i == CHOOSE x \in H : \A y \in H : y <= x
            IN [layers |-> [layers EXCEPT ![i] =
                               MemoryFs_delete(layers[i], path).files],
                root |-> r.files, result |-> Ok("unit"),
                calls |-> <<Call(0, "delete", r.result)>>]
       ELSE [layers |-> layers, root |-> r.files, result |-> r.result,
             calls |-> <<Call(0, "delete", r.result)>>]

layer_delete(layers, root, path, faults) ==
    LET r == Source_delete(root, path, faults[0])
    IN [layers |-> layers, root |-> r.files, result |-> r.result,
        calls |-> <<Call(0, "delete", r.result)>>]

\* ----------------------- backends: opendal, Cloudflare R2, embedded bundle
\* A backend store maps a key to an object. An opendal service that has
\* directories makes the parent directory of a file written below it and
\* reports it as an entry of mode DIR; every other entry is a FILE.
BackendNames == <<"a.txt", "d/", "d/c.txt">>

BackendPaths == {BackendNames[i] : i \in 1..Len(BackendNames)}

DirNames == {"d/"}

\* the paths of files
BackendFiles == BackendPaths \ DirNames

\* the directories above a path
Parents(path) == IF path = "d/c.txt" THEN {"d/"} ELSE {}

KeyRank(name) == CHOOSE i \in 1..Len(BackendNames) : BackendNames[i] = name

RECURSIVE InKeyOrder(_)
InKeyOrder(S) ==
    IF S = {} THEN <<>>
    ELSE LET m == CHOOSE x \in S : \A y \in S : KeyRank(x) <= KeyRank(y)
         IN <<m>> \o InKeyOrder(S \ {m})

Object(mode, data) == [mode |-> mode, data |-> data]

\* an item of a fs::Stream: Ok(Bytes) or Err(std::io::Error)
Chunk(bytes) == [ok |-> TRUE, bytes |-> bytes]

Failure == [ok |-> FALSE, bytes |-> <<>>]

\* the data streams handed to put
Streams ==
    {<<>>,
     <<Chunk(<<0>>)>>,
     <<Chunk(<<0>>), Chunk(<<1>>)>>,
     <<Failure>>,
     <<Chunk(<<0>>), Failure, Chunk(<<1>>)>>}

\* the bytes of the items of a stream, in order
RECURSIVE Bytes(_)
Bytes(data) ==
    IF data = <<>> THEN <<>> ELSE Head(data).bytes \o Bytes(Tail(data))

\* variant: a failed item is skipped and polling goes on
RECURSIVE poll_skip_failures(_, _, _)
poll_skip_failures(data, k, buffer) ==
    IF k > Len(data)
    THEN [polled |-> Len(data), buffer |-> buffer, result |-> Ok("unit")]
    ELSE poll_skip_failures(data, k + 1, buffer \o data[k].bytes)

\* while let Some(chunk) = data.next().await { <append chunk?> }: items are
\* polled in order up to the first failure; k is the next item, buffer the
\* bytes taken so far
RECURSIVE poll(_, _, _)
poll(data, k, buffer) ==
    IF k > Len(data)
    THEN [polled |-> Len(data), buffer |-> buffer, result |-> Ok("unit")]
    ELSE IF ~data[k].ok
    THEN [polled |-> k, buffer |-> buffer, result |-> Err("Io")]
    ELSE poll(data, k + 1, buffer \o data[k].bytes)

\* ---- opendal::Operator, as far as the adapter calls it
Operator_stat(store, path) ==
    IF path \in DOMAIN store
    THEN Ok([mode |-> store[path].mode,
             content_length |-> Len(store[path].data)])
    ELSE Err("NotFound")

\* list_with("/").recursive(true): every entry below the root
Operator_list(store) ==
    LET keys == InKeyOrder(DOMAIN store)
    IN Ok([i \in 1..Len(keys) |->
              [path |-> keys[i], metadata |-> Operator_stat(store, keys[i]).val]])

\* reader(path) ... into_bytes_stream(..), read to its end
Operator_read(store, path) ==
    IF path \notin DOMAIN store THEN Err("NotFound")
    ELSE IF store[path].mode = "DIR" THEN Err("IsADirectory")
    ELSE Ok(store[path].data)

\* variant: the bytes written overwrite the start of the entry at path
Operator_write_inplace(store, path, bytes, directories) ==
    [x \in (DOMAIN store) \cup {path}
              \cup (IF directories THEN Parents(path) ELSE {}) |->
        IF x # path /\ x \in DOMAIN store THEN store[x]
        ELSE IF x # path THEN Object("DIR", <<>>)
        ELSE IF path \in DOMAIN store /\ Len(store[path].data) > Len(bytes)
        THEN Object("FILE", bytes \o SubSeq(store[path].data, Len(bytes) + 1,
                                            Len(store[path].data)))
        ELSE Object("FILE", bytes)]

\* Writer::close: the bytes written become the entry at path; a service
\* with directories has made the directories above it
Operator_write(store, path, bytes, directories) ==
    [x \in (DOMAIN store) \cup {path}
              \cup (IF directories THEN Parents(path) ELSE {}) |->
        IF x = path THEN Object("FILE", bytes)
        ELSE IF x \in DOMAIN store THEN store[x]
        ELSE Object("DIR", <<>>)]

\* Operator::delete succeeds whether or not there is an entry
Operator_delete(store, path) ==
    [x \in (DOMAIN store) \ {path} |-> store[x]]

\* impl From<opendal::Error> for Error
from_opendal_Error(kind) ==
    CASE kind = "NotFound" -> "NotFound"
      [] kind = "PermissionDenied" -> "PermissionDenied"
      [] OTHER -> "Other"

\* the ? on an Operator call
try_opendal(r) == IF r.ok THEN r ELSE Err(from_opendal_Error(r.err))

\* impl From<(&str, opendal::Metadata)> for FileMeta; the clock reads 0
FileMeta_from_Metadata(path, metadata) ==
    FileMeta(path, 0, "rw", "application/octet-stream", 0,
             metadata.content_length)

\* ---- opendal::Filesystem, one definition per backend operation it awaits
opendal_list(store) ==
    LET r == try_opendal(Operator_list(store))
    IN IF ~r.ok THEN r
       ELSE Ok([i \in 1..Len(r.val) |->
                   FileMeta_from_Metadata(r.val[i].path, r.val[i].metadata)])

\* variant: a failed stat is reported as Other
opendal_meta_other(store, path) ==
    LET stat == Operator_stat(store, path)
    IN IF ~stat.ok THEN Err("Other")
       ELSE Ok(FileMeta_from_Metadata(path, stat.val))

opendal_meta(store, path) ==
    LET stat == try_opendal(Operator_stat(store, path))
    IN IF ~stat.ok THEN stat ELSE Ok(FileMeta_from_Metadata(path, stat.val))

\* the bytes a returned stream yields (content), whether it ends in a
\* failure (failed), and the FileMeta returned with it
Got(content, failed, meta) ==
    [content |-> content, failed |-> failed, meta |-> meta]

\* get after its stat succeeded: the reader is opened and the stream is
\* returned with the FileMeta made from stat; a read the backend refuses
\* fails the call, or (lazy) the first poll of the returned stream
opendal_get_reader(store, path, stat, lazy) ==
    LET r == try_opendal(Operator_read(store, path))
    IN IF r.ok THEN Ok(Got(r.val, FALSE, FileMeta_from_Metadata(path, stat)))
       ELSE IF lazy
       THEN Ok(Got(<<>>, TRUE, FileMeta_from_Metadata(path, stat)))
       ELSE r

\* get with no other call between its two backend operations: the results
\* it can return
opendal_get(store, path) ==
    LET stat == try_opendal(Operator_stat(store, path))
    IN IF ~stat.ok THEN {stat}
       ELSE {opendal_get_reader(store, path, stat.val, lazy) : lazy \in BOOLEAN}

\* variant: delete does not stat the path first
opendal_delete_stat_skip(store, path) == Ok("unit")

\* delete: self.operator.stat(path).await?;
opendal_delete_stat(store, path) ==
    LET stat == try_opendal(Operator_stat(store, path))
    IN IF ~stat.ok THEN stat ELSE Ok("unit")

\* ---- worker::Bucket (R2), as far as the adapter calls it
\* head and get: Option<Object>
Bucket_head(store, key) == IF key \in DOMAIN store THEN {store[key]} ELSE {}

Bucket_get(store, key) == IF key \in DOMAIN store THEN {store[key]} ELSE {}

Bucket_list(store) ==
    LET keys == InKeyOrder(DOMAIN store)
    IN [i \in 1..Len(keys) |-> [key |-> keys[i], object |-> store[keys[i]]]]

Bucket_put(store, key, bytes) ==
    [x \in (DOMAIN store) \cup {key} |->
        IF x = key THEN Object("FILE", bytes) ELSE store[x]]

Bucket_delete(store, key) ==
    [x \in (DOMAIN store) \ {key} |-> store[x]]

\* the clock reads 0
file_meta_from_r2_object(object, name) ==
    FileMeta(name, 0, "rw", "application/octet-stream", 0, Len(object.data))

\* ---- cloudflare::Filesystem (empty prefix)
cloudflare_list(store) ==
    LET objects == Bucket_list(store)
    IN Ok([i \in 1..Len(objects) |->
              file_meta_from_r2_object(objects[i].object, objects[i].key)])

cloudflare_get(store, path) ==
    LET object == Bucket_get(store, path)
    IN IF object = {} THEN Err("NotFound")
       ELSE LET o == CHOOSE x \in object : TRUE
            IN Ok(Got(o.data, FALSE, file_meta_from_r2_object(o, path)))

cloudflare_meta(store, path) ==
    LET object == Bucket_head(store, path)
    IN IF object = {} THEN Err("NotFound")
       ELSE Ok(file_meta_from_r2_object(CHOOSE x \in object : TRUE, path))

\* put: with a size the stream goes to the bucket's put, which stores the
\* object only if the stream delivers size bytes without a failure; without
\* one the stream is buffered first if allowed, else put is refused.
\* Returns the new store, the result and the number of items polled.
\* variant: a stream without a declared size is buffered whatever the flag
cloudflare_put_buffer_always(store, path, data, meta, allow_buffered_upload) ==
    LET p == poll(data, 1, <<>>)
    IN IF meta.size # {}
       THEN IF p.result.ok /\ Len(p.buffer) = unwrap_or(meta.size, 0)
            THEN [store |-> Bucket_put(store, path, p.buffer),
                  result |-> Ok(file_meta_from_r2_object(Object("FILE", p.buffer), path)),
                  polled |-> p.polled]
            ELSE [store |-> store, result |-> Err("Other"), polled |-> p.polled]
       ELSE IF ~p.result.ok
       THEN [store |-> store, result |-> p.result, polled |-> p.polled]
       ELSE [store |-> Bucket_put(store, path, p.buffer),
             result |-> Ok(file_meta_from_r2_object(Object("FILE", p.buffer), path)),
             polled |-> p.polled]

cloudflare_put(store, path, data, meta, allow_buffered_upload) ==
    LET p == poll(data, 1, <<>>)
    IN IF meta.size # {}
       THEN IF p.result.ok /\ Len(p.buffer) = unwrap_or(meta.size, 0)
            THEN [store |-> Bucket_put(store, path, p.buffer),
                  result |-> Ok(file_meta_from_r2_object(Object("FILE", p.buffer), path)),
                  polled |-> p.polled]
            ELSE [store |-> store, result |-> Err("Other"), polled |-> p.polled]
       ELSE IF allow_buffered_upload
       THEN IF ~p.result.ok
            THEN [store |-> store, result |-> p.result, polled |-> p.polled]
            ELSE [store |-> Bucket_put(store, path, p.buffer),
                  result |-> Ok(file_meta_from_r2_object(Object("FILE", p.buffer), path)),
                  polled |-> p.polled]
       ELSE [store |-> store, result |-> Err("Other"), polled |-> 0]

\* delete: self.bucket.head(&full_path) ... .ok_or_else(NotFound)?;
cloudflare_delete_head(store, path) ==
    IF Bucket_head(store, path) = {} THEN Err("NotFound") ELSE Ok("unit")

\* ---- rust_embed::Embed, as far as the adapter calls it
Embed_iter(store) == InKeyOrder(DOMAIN store)

\* Option<EmbeddedFile>
Embed_get(store, path) == IF path \in DOMAIN store THEN {store[path]} ELSE {}

\* impl From<(&str, rust_embed::EmbeddedFile)> for FileMeta; the file
\* carries no timestamps and the clock reads 0
FileMeta_from_EmbeddedFile(name, file) ==
    FileMeta(name, 0, "ro", "text/plain", 0, Len(file.data))

\* ---- embed::Filesystem
\* E::iter().filter_map(|path| E::get(&path).map(..)).collect()
RECURSIVE filter_map(_, _)
filter_map(store, paths) ==
    IF paths = <<>> THEN <<>>
    ELSE LET file == Embed_get(store, Head(paths))
         IN (IF file = {} THEN <<>>
             ELSE <<FileMeta_from_EmbeddedFile(Head(paths),
                                               CHOOSE x \in file : TRUE)>>)
            \o filter_map(store, Tail(paths))

embed_list(store) == Ok(filter_map(store, Embed_iter(store)))

embed_get(store, path) ==
    LET file == Embed_get(store, path)
    IN IF file = {} THEN Err("NotFound")
       ELSE LET f == CHOOSE x \in file : TRUE
            IN Ok(Got(f.data, FALSE, FileMeta_from_EmbeddedFile(path, f)))

embed_meta(store, path) ==
    LET file == Embed_get(store, path)
    IN IF file = {} THEN Err("NotFound")
       ELSE Ok(FileMeta_from_EmbeddedFile(path, CHOOSE x \in file : TRUE))

\* ------------------------------------------------ http server: /.fs routes
Response(status, headers, body) ==
    [status |-> status, headers |-> headers, body |-> body]

\* response bodies: nothing, JSON null, a JSON array, a JSON object, text,
\* the bytes of a stream
Body(kind, val) == [kind |-> kind, val |-> val]

\* variant: PermissionDenied is answered like every other error
StatusCode_from_no_403(kind) ==
    CASE kind = "NotFound" -> 404
      [] OTHER -> 500

\* impl From<Error> for StatusCode
StatusCode_from(kind) ==
    CASE kind = "NotFound" -> 404
      [] kind = "PermissionDenied" -> 403
      [] OTHER -> 500

\* impl IntoResponse for Error
Error_into_response(kind) ==
    Response(StatusCode_from(kind), <<>>, Body("empty", <<>>))

\* the conversion `?` applies to an fs::Error in a handler that returns
\* Result<_, Response>
Response_from_Error(kind) ==
    Response(StatusCode_from(kind), <<>>, Body("empty", <<>>))

\* impl TryFrom<FileMeta> for HeaderMap
HeaderMap_from_FileMeta(meta) ==
    [content_type |-> meta.content_type, content_length |-> meta.size,
     x_content_length |-> meta.size, x_created |-> meta.created,
     x_last_modified |-> meta.last_modified, x_permission |-> meta.perm]

\* impl TryFrom<HeaderMap> for IncomingFileMeta: x-created and Content-Type
\* are read, every other field is None
IncomingFileMeta_from_HeaderMap(headers) ==
    [IncomingFileMeta EXCEPT !.created = headers.x_created,
                             !.content_type = headers.content_type]

\* Vec::sort_by(|a, b| a.name.cmp(&b.name)): a stable sort by name
RECURSIVE sort_by(_)
sort_by(files) ==
    IF files = <<>> THEN <<>>
    ELSE LET k == CHOOSE i \in 1..Len(files) :
                     \A j \in 1..Len(files) :
                        \/ Rank(files[i].name) < Rank(files[j].name)
                        \/ Rank(files[i].name) = Rank(files[j].name) /\ i <= j
         IN <<files[k]>> \o
            sort_by([i \in 1..(Len(files) - 1) |->
                        IF i < k THEN files[i] ELSE files[i + 1]])

\* the orders in which a filesystem may return its entries (the values of a
\* HashMap, the entries of an operator listing)
Orders(files) ==
    {[i \in 1..Len(files) |-> files[f[i]]] :
        f \in {g \in [1..Len(files) -> 1..Len(files)] :
                  \A i, j \in 1..Len(files) : g[i] = g[j] => i = j}}

\* core/src/server/fs.rs, list: the closure passed to map sorts the Vec and
\* returns (), so `files` is () and Json(files) is null
core_list(listed) ==
    IF listed.ok THEN Response(200, <<>>, Body("null", <<>>))
    ELSE Error_into_response(listed.err)

\* silverbullet/src/server/routes/fs.rs, list
routes_list(listed) ==
    IF listed.ok THEN Response(200, <<>>, Body("array", sort_by(listed.val)))
    ELSE Error_into_response(listed.err)

\* get, the same in both implementations: r is the result of fs.meta when
\* the request has an X-Get-Meta header, of fs.get otherwise
server_get(get_meta, r) ==
    IF ~r.ok THEN Response_from_Error(r.err)
    ELSE IF get_meta
    THEN Response(200, HeaderMap_from_FileMeta(r.val), Body("empty", <<>>))
    ELSE Response(200, HeaderMap_from_FileMeta(r.val.meta),
                  Body("stream", r.val.content))

\* put, the same in both implementations: r is the result of fs.put
server_put(r) ==
    IF ~r.ok THEN Response_from_Error(r.err)
    ELSE Response(200,
                  [x \in (DOMAIN HeaderMap_from_FileMeta(r.val))
                            \cup {"cache_control"} |->
                      IF x = "cache_control" THEN "no-cache"
                      ELSE HeaderMap_from_FileMeta(r.val)[x]],
                  Body("object", <<r.val>>))

\* silverbullet/src/server/routes/fs.rs, delete: r is the result of fs.delete
routes_delete(r) ==
    IF r.ok THEN Response(200, <<>>, Body("text", <<"OK">>))
    ELSE Error_into_response(r.err)

\* options, the same in both implementations
server_options ==
    Response(200, [allow |-> <<"GET", "PUT", "DELETE", "OPTIONS">>], Body("empty", <<>>))

\* core/src/server/fs.rs, router: "/.fs" and "/.fs/{*path}"
core_router(method, route) ==
    CASE route = "list" /\ method = "GET" -> "list"
      [] route = "file" /\ method = "GET" -> "get"
      [] route = "file" /\ method = "PUT" -> "put"
      [] route = "file" /\ method = "OPTIONS" -> "options"
      [] OTHER -> "method_not_allowed"

\* silverbullet/src/server/routes/fs.rs, router, nested under "/.fs"
routes_router(method, route) ==
    CASE route = "list" /\ method = "GET" -> "list"
      [] route = "file" /\ method = "GET" -> "get"
      [] route = "file" /\ method = "PUT" -> "put"
      [] route = "file" /\ method = "DELETE" -> "delete"
      [] route = "file" /\ method = "OPTIONS" -> "options"
      [] OTHER -> "method_not_allowed"

\* the handler the router of an implementation hands a request to
dispatch(implementation, method, route) ==
    IF implementation = "core" THEN core_router(method, route)
    ELSE routes_router(method, route)

\* ---------------------------------------------------- http server: proxy
\* A header name is the sequence of the pieces between its dashes:
\* "x-proxy-header-authorization" is <<"x","proxy","header","authorization">>
\* and "x-proxy-header-" is <<"x","proxy","header","">>.  A HeaderMap is a
\* function from names to values.
Prefix == <<"x", "proxy", "header">>

HeaderNames ==
    {Prefix \o <<"authorization">>, Prefix \o <<"">>, Prefix,
     <<"authorization">>}

HeaderMaps == UNION {[S -> {"v", "w"}] : S \in SUBSET HeaderNames}

\* str::starts_with("x-proxy-header-"): the name goes on after the dash
\* that follows "header"
starts_with_prefix(name) ==
    Len(name) > Len(Prefix) /\ SubSeq(name, 1, Len(Prefix)) = Prefix

\* &name_str["x-proxy-header-".len()..]
strip(name) == SubSeq(name, Len(Prefix) + 1, Len(name))

\* HeaderName::from_str: the empty string is not a header name
HeaderName_from_str(name) ==
    IF name = <<"">> THEN Err("InvalidHeaderName") ELSE Ok(name)

\* variant: every header is forwarded, a prefixed one under its stripped name
filter_proxy_headers_forward_all(headers) ==
    LET kept == {n \in DOMAIN headers :
                    ~starts_with_prefix(n) \/ HeaderName_from_str(strip(n)).ok}
        name(n) == IF starts_with_prefix(n) THEN strip(n) ELSE n
    IN [m \in {name(n) : n \in kept} |->
           headers[CHOOSE n \in kept : name(n) = m]]

\* filter_proxy_headers: filter_map over the headers, collected
filter_proxy_headers(headers) ==
    LET kept == {n \in DOMAIN headers :
                    starts_with_prefix(n) /\ HeaderName_from_str(strip(n)).ok}
    IN [m \in {strip(n) : n \in kept} |->
           headers[CHOOSE n \in kept : strip(n) = m]]

\* a host is the sequence of the labels between its dots
Hosts == {<<"example", "com">>, <<"172", "16", "0", "1">>}

is_private_ip(host) ==
    \/ Len(host) >= 3 /\ host[1] = "192" /\ host[2] = "168"
    \/ Len(host) >= 2 /\ host[1] = "10"
    \/ Len(host) >= 3 /\ host[1] = "172"
          /\ host[2] \in {"16", "17", "18", "19", "20", "21", "22", "23",
                          "24", "25", "26", "27", "28", "29", "30", "31"}

\* adjust_scheme, for a target that starts with a host name or an IPv4
\* address
adjust_scheme(host) ==
    IF \/ host = <<"localhost">>
       \/ host = <<"127", "0", "0", "1">>
       \/ host = <<"host", "docker", "internal">>
       \/ is_private_ip(host)
    THEN "http" ELSE "https"

\* Proxy::proxy up to client.send: the request handed to the client
proxied_request(request) ==
    [method |-> request.method,
     uri |-> [scheme |-> adjust_scheme(request.host), host |-> request.host],
     headers |-> filter_proxy_headers(request.headers),
     body |-> request.body]

\* what the client answers: a response, or its failure
Upstreams ==
    {Ok([status |-> s, headers |-> h]) :
        s \in {"200", "404"},
        h \in UNION {[S -> {"v"}] :
                        S \in SUBSET {<<"content", "type">>, <<"etag">>}}}
    \cup {Err("Client"), Err("NotSupported")}

\* Proxy::proxy after client.send: status 200, the upstream status and
\* headers as x-proxy- headers, content-type also under its own name
proxy_response(upstream) ==
    LET h == upstream.headers
        status_code == <<"x", "proxy", "status", "code">>
        content_type == <<"content", "type">>
        names == {status_code} \cup {Prefix \o n : n \in DOMAIN h}
                    \cup (DOMAIN h \cap {content_type})
    IN Response(200,
                [n \in names |->
                    IF n = content_type THEN h[content_type]
                    ELSE IF n = status_code THEN upstream.status
                    ELSE h[strip(n)]],
                Body("bytes", <<>>))

\* routes::proxy::proxy: the answer to the client's result
routes_proxy(sent) ==
    IF sent.ok THEN proxy_response(sent.val)
    ELSE IF sent.err = "NotSupported"
    THEN Response(501, <<>>, Body("empty", <<>>))
    ELSE Response(502, <<>>, Body("empty", <<>>))

\* ------------------------------------------------------------------ state
VARIABLES
    built,    \* FALSE while the Builder owns root and layers, TRUE after build()
    layers,   \* Vec of the layers' stores, in the order they were added
    root,     \* the root's store
    op,       \* the last operation: its inputs, the calls it made, its result
    fs,       \* the backend Filesystem under concurrent use: kind and flags
    store,    \* what its operator, bucket or bundle holds
    task,     \* per caller: the call in progress, its position, its result
    router,   \* which /.fs router implementation serves the requests
    exchange  \* the last request served: handler, calls made, response

vars == <<built, layers, root, op, fs, store, task, router, exchange>>

\* the state of the http server
web == <<router, exchange>>

\* the state of a backend Filesystem and of its callers
backend == <<fs, store, task>>

\* the state of the layered Filesystem and of its caller
layered == <<built, layers, root, op>>

\* the callers of a backend Filesystem
Procs == {1, 2}

Task(name, path, pc, data, size, polled, buffer, stat, result) ==
    [name |-> name, path |-> path, pc |-> pc, data |-> data, size |-> size,
     polled |-> polled, buffer |-> buffer, stat |-> stat, result |-> result]

NoStat == [mode |-> "FILE", content_length |-> 0]

Idle == Task("none", "", "idle", <<>>, {}, 0, <<>>, NoStat, Ok("unit"))

\* no backend Filesystem is under study
NoBackend ==
    [kind |-> "none", allow_buffered_upload |-> FALSE, directories |-> FALSE]

Event(name, path, faults, twice, data, calls, result) ==
    [name |-> name, path |-> path, faults |-> faults, twice |-> twice,
     data |-> data, calls |-> calls, result |-> result]

NoFaults == [i \in {0} |-> "none"]

\* no call on the built Filesystem is recorded
NoCall == Event("none", "", NoFaults, FALSE, <<>>, <<>>, Ok("unit"))

\* a served request: the handler the router chose, the result of the call
\* the handler made (on the filesystem, or on the proxy's client), the
\* response, and the request handed to the proxy's client
Exchange(request, handler, called, response, upstream) ==
    [request |-> request, handler |-> handler, called |-> called,
     response |-> response, upstream |-> upstream]

\* no request has been served
NoExchange ==
    Exchange(NoCall, "none", NoCall, Response(200, <<>>, Body("empty", <<>>)), NoCall)

\* the stores a MemoryFs root can be constructed with
RootStores ==
    UNION {[S -> PutData] : S \in SUBSET Paths}

RootOf(contents) ==
    [x \in DOMAIN contents |->
        [data |-> contents[x],
         meta |-> FileMeta(x, 0, "rw", "text/plain", 0, Len(contents[x]))]]

\* Builder::new(root)
Init ==
    /\ built = FALSE
    /\ layers = <<>>
    /\ \E contents \in RootStores : root = RootOf(contents)
    /\ op = NoCall
    /\ fs = NoBackend
    /\ store = MemoryFs_new
    /\ task = [p \in Procs |-> Idle]
    /\ router = "none"
    /\ exchange = NoExchange

RECURSIVE with_files(_, _, _)
with_files(files, names, content) ==
    IF names = {} THEN files
    ELSE LET n == CHOOSE x \in names : TRUE
         IN with_files(MemoryFs_with_file(files, n, content), names \ {n}, content)

\* Builder::layer(layer)
Layer ==
    /\ ~built
    /\ Len(layers) < MaxLayers
    /\ \E names \in SUBSET Paths :
          layers' = Append(layers,
                           with_files(MemoryFs_new, names,
                                      LayerContent(Len(layers) + 1)))
    /\ UNCHANGED <<built, root, op>>
    /\ UNCHANGED <<backend, web>>

\* Builder::build()
Build ==
    /\ ~built
    /\ built' = TRUE
    /\ UNCHANGED <<layers, root, op>>
    /\ UNCHANGED <<backend, web>>

\* the Err each source may report to a call: any kind on any source
\* (failing = TRUE), or none
FaultSets(srcs, failing) ==
    IF failing THEN [srcs -> Faults] ELSE {[i \in srcs |-> "none"]}

AllFaults(srcs) == FaultSets(srcs, TRUE)

List(failing) ==
    /\ built
    /\ \E faults \in FaultSets(0..Len(layers), failing), twice \in BOOLEAN :
          LET r == layer_list(layers, root, faults, twice)
          IN op' = Event("list", "", faults, twice, <<>>, r.calls, r.result)
    /\ UNCHANGED <<built, layers, root>>
    /\ UNCHANGED <<backend, web>>

Get(failing) ==
    /\ built
    /\ \E path \in Paths, faults \in FaultSets(0..Len(layers), failing) :
          LET r == layer_get(layers, root, path, faults)
          IN op' = Event("get", path, faults, FALSE, <<>>, r.calls, r.result)
    /\ UNCHANGED <<built, layers, root>>
    /\ UNCHANGED <<backend, web>>

Meta(failing) ==
    /\ built
    /\ \E path \in Paths, faults \in FaultSets(0..Len(layers), failing) :
          LET r == layer_meta(layers, root, path, faults)
          IN op' = Event("meta", path, faults, FALSE, <<>>, r.calls, r.result)
    /\ UNCHANGED <<built, layers, root>>
    /\ UNCHANGED <<backend, web>>

Put ==
    /\ built
    /\ \E path \in Paths, data \in PutData, faults \in AllFaults({0}) :
          LET r == layer_put(layers, root, path, data, IncomingFileMeta, faults)
          IN /\ layers' = r.layers
             /\ root' = r.root
             /\ op' = Event("put", path, faults, FALSE, data, r.calls, r.result)
    /\ UNCHANGED built
    /\ UNCHANGED <<backend, web>>

Delete ==
    /\ built
    /\ \E path \in Paths, faults \in AllFaults({0}) :
          LET r == layer_delete(layers, root, path, faults)
          IN /\ layers' = r.layers
             /\ root' = r.root
             /\ op' = Event("delete", path, faults, FALSE, <<>>, r.calls, r.result)
    /\ UNCHANGED built
    /\ UNCHANGED <<backend, web>>

\* the store behind a layer loses an entry (the layer's backend changes
\* outside the overlay, which only ever reads it)
LayerStoreRemove ==
    /\ built
    /\ \E i \in 1..Len(layers) : \E path \in DOMAIN layers[i] :
          /\ layers' = [layers EXCEPT ![i] = MemoryFs_delete(layers[i], path).files]
          /\ op' = NoCall
    /\ UNCHANGED <<built, root>>
    /\ UNCHANGED <<backend, web>>

CallNames == {"list", "get", "meta", "put", "delete"}

\* ---- Spec: one caller, one call at a time, every source may fail a call
\* the caller has taken the result of its last call
Ready == op.name \notin CallNames

CallList == Ready /\ List(TRUE)

CallGet == Ready /\ Get(TRUE)

CallMeta == Ready /\ Meta(TRUE)

CallPut == Ready /\ Put

CallDelete == Ready /\ Delete

StoreRemove == Ready /\ LayerStoreRemove

\* the caller takes the result
Return ==
    /\ op.name \in CallNames
    /\ op' = NoCall
    /\ UNCHANGED <<built, layers, root>>
    /\ UNCHANGED <<backend, web>>

Next ==
    \/ Layer
    \/ Build
    \/ CallList
    \/ CallGet
    \/ CallMeta
    \/ CallPut
    \/ CallDelete
    \/ StoreRemove
    \/ Return

Spec == Init /\ [][Next]_vars

\* ---- SpecRead: as Spec, for a composition that is only read; the files of
\* the root hold one byte each
InitRead ==
    /\ built = FALSE
    /\ layers = <<>>
    /\ \E names \in SUBSET Paths : root = RootOf([x \in names |-> <<0>>])
    /\ op = NoCall
    /\ fs = NoBackend
    /\ store = MemoryFs_new
    /\ task = [p \in Procs |-> Idle]
    /\ router = "none"
    /\ exchange = NoExchange

NextRead ==
    \/ Layer
    \/ Build
    \/ CallList
    \/ CallGet
    \/ CallMeta
    \/ Return

SpecRead == InitRead /\ [][NextRead]_vars

\* ---- SpecSeq: calls follow one another directly; the read calls find
\* every source answering from its store, the root may fail put and delete
SeqList == List(FALSE)

SeqGet == Get(FALSE)

SeqMeta == Meta(FALSE)

NextSeq ==
    \/ Layer
    \/ Build
    \/ SeqList
    \/ SeqGet
    \/ SeqMeta
    \/ Put
    \/ Delete
    \/ LayerStoreRemove

SpecSeq == Init /\ [][NextSeq]_vars

\* ---- SpecBackend: one backend Filesystem shared by the callers in Procs;
\* a call is one step per backend operation it awaits, so that the steps
\* of the callers interleave
Kinds == {"opendal", "cloudflare", "embed"}

\* the Filesystems under study: over an operator of a service without
\* directories (Memory) or with them, over a bucket with buffered uploads
\* refused or allowed, over an embedded bundle
Backend(kind, allow_buffered_upload, directories) ==
    [kind |-> kind, allow_buffered_upload |-> allow_buffered_upload,
     directories |-> directories]

Backends ==
    {Backend("opendal", FALSE, FALSE),
     Backend("opendal", FALSE, TRUE),
     Backend("cloudflare", FALSE, FALSE),
     Backend("cloudflare", TRUE, FALSE),
     Backend("embed", FALSE, FALSE)}

\* the bundles of files an Embed type can hold
Bundles ==
    UNION {[S -> PutData] : S \in SUBSET BackendFiles}

\* what the backend holds when the Filesystem is constructed: an empty
\* operator, an empty bucket, any bundle
StoresOf(kind) ==
    IF kind \in {"opendal", "cloudflare"} THEN {MemoryFs_new}
    ELSE {[x \in DOMAIN c |-> Object("FILE", c[x])] : c \in Bundles}

\* Filesystem::new(operator), Filesystem::new(bucket), Filesystem::<E>::new()
InitBackend ==
    /\ built = FALSE
    /\ layers = <<>>
    /\ root = MemoryFs_new
    /\ op = NoCall
    /\ fs \in Backends
    /\ store \in StoresOf(fs.kind)
    /\ task = [p \in Procs |-> Idle]
    /\ router = "none"
    /\ exchange = NoExchange

Writable == fs.kind \in {"opendal", "cloudflare"}

\* a call that has returned: its inputs and its result
Done(name, path, data, size, polled, result) ==
    Task(name, path, "done", data, size, polled, <<>>, NoStat, result)

\* the call on the Filesystem of kind k over the store s
backend_list(k, s) ==
    CASE k = "opendal" -> opendal_list(s)
      [] k = "cloudflare" -> cloudflare_list(s)
      [] OTHER -> embed_list(s)

backend_meta(k, s, path) ==
    CASE k = "opendal" -> opendal_meta(s, path)
      [] k = "cloudflare" -> cloudflare_meta(s, path)
      [] OTHER -> embed_meta(s, path)

\* the results get can return when no other call runs during it
backend_get(k, s, path) ==
    CASE k = "opendal" -> opendal_get(s, path)
      [] k = "cloudflare" -> {cloudflare_get(s, path)}
      [] OTHER -> {embed_get(s, path)}

BList(p) ==
    /\ task[p].pc = "idle"
    /\ task' = [task EXCEPT ![p] = Done("list", "", <<>>, {}, 0,
                        backend_list(fs.kind, store))]
    /\ UNCHANGED <<fs, store>>
    /\ UNCHANGED <<layered, web>>

BMeta(p) ==
    /\ task[p].pc = "idle"
    /\ \E path \in BackendPaths :
          task' = [task EXCEPT ![p] =
                      Done("meta", path, <<>>, {}, 0,
                           backend_meta(fs.kind, store, path))]
    /\ UNCHANGED <<fs, store>>
    /\ UNCHANGED <<layered, web>>

\* cloudflare get (bucket.get) and embed get (E::get): one backend operation
BGet(p) ==
    /\ task[p].pc = "idle"
    /\ fs.kind \in {"cloudflare", "embed"}
    /\ \E path \in BackendPaths :
          LET r == IF fs.kind = "cloudflare" THEN cloudflare_get(store, path)
                   ELSE embed_get(store, path)
          IN task' = [task EXCEPT ![p] = Done("get", path, <<>>, {}, 0, r)]
    /\ UNCHANGED <<fs, store>>
    /\ UNCHANGED <<layered, web>>

\* opendal get: let stat = self.operator.stat(path).await?;
OpendalGetStat(p) ==
    /\ task[p].pc = "idle"
    /\ fs.kind = "opendal"
    /\ \E path \in BackendPaths :
          LET stat == try_opendal(Operator_stat(store, path))
          IN task' = [task EXCEPT ![p] =
                IF stat.ok
                THEN Task("get", path, "reader", <<>>, {}, 0, <<>>, stat.val,
                          Ok("unit"))
                ELSE Done("get", path, <<>>, {}, 0, stat)]
    /\ UNCHANGED <<fs, store>>
    /\ UNCHANGED <<layered, web>>

\* opendal get: self.operator.reader(path).await?.into_bytes_stream(..).await?
OpendalGetReader(p) ==
    /\ task[p].pc = "reader"
    /\ \E lazy \in BOOLEAN :
          task' = [task EXCEPT ![p] =
                      Done("get", task[p].path, <<>>, {}, 0,
                           opendal_get_reader(store, task[p].path,
                                              task[p].stat, lazy))]
    /\ UNCHANGED <<fs, store>>
    /\ UNCHANGED <<layered, web>>

\* opendal put: writer_options(..).await?, then the loop over the stream
OpendalPutWrite(p) ==
    /\ task[p].pc = "idle"
    /\ fs.kind = "opendal"
    /\ \E path \in BackendFiles, data \in Streams :
          LET w == poll(data, 1, <<>>)
          IN task' = [task EXCEPT ![p] =
                IF w.result.ok
                THEN Task("put", path, "close", data, {}, w.polled, w.buffer,
                          NoStat, Ok("unit"))
                ELSE Done("put", path, data, {}, w.polled, w.result)]
    /\ UNCHANGED <<fs, store>>
    /\ UNCHANGED <<layered, web>>

\* opendal put: writer.close().await?;
OpendalPutClose(p) ==
    /\ task[p].pc = "close"
    /\ store' = Operator_write(store, task[p].path, task[p].buffer,
                                fs.directories)
    /\ task' = [task EXCEPT ![p].pc = "stat", ![p].buffer = <<>>]
    /\ UNCHANGED fs
    /\ UNCHANGED <<layered, web>>

\* opendal put: let stat = self.operator.stat(path).await?; Ok((path, stat).into())
OpendalPutStat(p) ==
    /\ task[p].pc = "stat"
    /\ task' = [task EXCEPT ![p] =
                   Done("put", task[p].path, task[p].data, {}, task[p].polled,
                        opendal_meta(store, task[p].path))]
    /\ UNCHANGED <<fs, store>>
    /\ UNCHANGED <<layered, web>>

\* cloudflare put; meta.size is absent or the length the caller declares
CloudflarePut(p) ==
    /\ task[p].pc = "idle"
    /\ fs.kind = "cloudflare"
    /\ \E path \in BackendFiles, data \in Streams, sized \in BOOLEAN :
          LET size == IF sized THEN {Len(Bytes(data))} ELSE {}
              r == cloudflare_put(store, path, data,
                                  [IncomingFileMeta EXCEPT !.size = size],
                                  fs.allow_buffered_upload)
          IN /\ store' = r.store
             /\ task' = [task EXCEPT ![p] =
                            Done("put", path, data, size, r.polled, r.result)]
    /\ UNCHANGED fs
    /\ UNCHANGED <<layered, web>>

\* delete: the existence check (operator.stat, bucket.head)
DeleteCheck(p) ==
    /\ task[p].pc = "idle"
    /\ Writable
    /\ \E path \in BackendFiles :
          LET r == IF fs.kind = "opendal" THEN opendal_delete_stat(store, path)
                   ELSE cloudflare_delete_head(store, path)
          IN task' = [task EXCEPT ![p] =
                IF r.ok
                THEN Task("delete", path, "delete", <<>>, {}, 0, <<>>, NoStat,
                          Ok("unit"))
                ELSE Done("delete", path, <<>>, {}, 0, r)]
    /\ UNCHANGED <<fs, store>>
    /\ UNCHANGED <<layered, web>>

\* delete: operator.delete(path), bucket.delete(path); Ok(())
DeleteRemove(p) ==
    /\ task[p].pc = "delete"
    /\ store' = IF fs.kind = "opendal" THEN Operator_delete(store, task[p].path)
                ELSE Bucket_delete(store, task[p].path)
    /\ task' = [task EXCEPT ![p] =
                   Done("delete", task[p].path, <<>>, {}, 0, Ok("unit"))]
    /\ UNCHANGED fs
    /\ UNCHANGED <<layered, web>>

\* the caller takes the result of its call
TaskReturn(p) ==
    /\ task[p].pc = "done"
    /\ task' = [task EXCEPT ![p] = Idle]
    /\ UNCHANGED <<fs, store>>
    /\ UNCHANGED <<layered, web>>

NextBackend ==
    \E p \in Procs :
       \/ BList(p)
       \/ BMeta(p)
       \/ BGet(p)
       \/ OpendalGetStat(p)
       \/ OpendalGetReader(p)
       \/ OpendalPutWrite(p)
       \/ OpendalPutClose(p)
       \/ OpendalPutStat(p)
       \/ CloudflarePut(p)
       \/ DeleteCheck(p)
       \/ DeleteRemove(p)
       \/ TaskReturn(p)

SpecBackend == InitBackend /\ [][NextBackend]_vars

\* ---- SpecServer: one of the two /.fs routers, and the proxy route of the
\* silverbullet router, in front of a filesystem that holds `root` and may
\* fail a call; a request is answered in one step
InitServer ==
    /\ built = FALSE
    /\ layers = <<>>
    /\ \E contents \in RootStores : root = RootOf(contents)
    /\ op = NoCall
    /\ fs = NoBackend
    /\ store = MemoryFs_new
    /\ task = [p \in Procs |-> Idle]
    /\ router \in {"core", "silverbullet"}
    /\ exchange = NoExchange

\* a request on a /.fs route, with the headers the handlers read
FsRequest(method, route, path, get_meta, created, body) ==
    [method |-> method, route |-> route, path |-> path,
     headers |-> [x_get_meta |-> get_meta, x_created |-> created,
                  content_type |-> {}],
     body |-> body]

\* GET /.fs
ServeList ==
    /\ dispatch(router, "GET", "list") = "list"
    /\ \E fault \in Faults :
          LET r == Source_list(root, fault, FALSE)
          IN \E listed \in IF r.ok THEN {Ok(l) : l \in Orders(r.val)} ELSE {r} :
                exchange' = Exchange(
                    FsRequest("GET", "list", "", FALSE, {}, <<>>),
                    "list", listed,
                    IF router = "core" THEN core_list(listed)
                    ELSE routes_list(listed),
                    NoCall)
    /\ UNCHANGED router
    /\ UNCHANGED <<layered, backend>>

\* GET /.fs/{*path}
ServeGet ==
    /\ dispatch(router, "GET", "file") = "get"
    /\ \E path \in Paths, get_meta \in BOOLEAN, fault \in Faults :
          LET r == IF get_meta THEN Source_meta(root, path, fault)
                   ELSE Source_get(root, path, fault)
          IN exchange' = Exchange(
                 FsRequest("GET", "file", path, get_meta, {}, <<>>),
                 "get", r, server_get(get_meta, r), NoCall)
    /\ UNCHANGED router
    /\ UNCHANGED <<layered, backend>>

\* PUT /.fs/{*path}
ServePut ==
    /\ dispatch(router, "PUT", "file") = "put"
    /\ \E path \in Paths, data \in PutData, created \in {{}, {1}},
          fault \in Faults :
          LET request == FsRequest("PUT", "file", path, FALSE, created, data)
              r == Source_put(root, path, data,
                              IncomingFileMeta_from_HeaderMap(request.headers),
                              fault)
          IN /\ root' = r.files
             /\ exchange' = Exchange(
                    request,
                    "put", r.result, server_put(r.result), NoCall)
    /\ UNCHANGED <<router, built, layers, op>>
    /\ UNCHANGED backend

\* DELETE /.fs/{*path}
ServeDelete ==
    /\ dispatch(router, "DELETE", "file") = "delete"
    /\ \E path \in Paths, fault \in Faults :
          LET r == Source_delete(root, path, fault)
          IN /\ root' = r.files
             /\ exchange' = Exchange(
                    FsRequest("DELETE", "file", path, FALSE, {}, <<>>),
                    "delete", r.result, routes_delete(r.result), NoCall)
    /\ UNCHANGED <<router, built, layers, op>>
    /\ UNCHANGED backend

\* OPTIONS /.fs/{*path}
ServeOptions ==
    /\ dispatch(router, "OPTIONS", "file") = "options"
    /\ \E path \in Paths :
          exchange' = Exchange(
              FsRequest("OPTIONS", "file", path, FALSE, {}, <<>>),
              "options", NoCall, server_options, NoCall)
    /\ UNCHANGED router
    /\ UNCHANGED <<layered, backend>>

\* a method the route has no handler for
ServeMethodNotAllowed ==
    /\ \E method \in {"GET", "PUT", "DELETE", "OPTIONS"},
          route \in {"list", "file"}, path \in Paths :
          /\ dispatch(router, method, route) = "method_not_allowed"
          /\ exchange' = Exchange(
                 FsRequest(method, route, IF route = "list" THEN "" ELSE path,
                           FALSE, {}, <<>>),
                 "method_not_allowed", NoCall,
                 Response(405, <<>>, Body("empty", <<>>)), NoCall)
    /\ UNCHANGED router
    /\ UNCHANGED <<layered, backend>>

NextServer ==
    \/ ServeList
    \/ ServeGet
    \/ ServePut
    \/ ServeDelete
    \/ ServeOptions
    \/ ServeMethodNotAllowed

SpecServer == InitServer /\ [][NextServer]_vars

\* ---- SpecProxy: the proxy route of the silverbullet router; a request is
\* handed to the client in one step and answered in the next
InitProxy ==
    /\ built = FALSE
    /\ layers = <<>>
    /\ root = MemoryFs_new
    /\ op = NoCall
    /\ fs = NoBackend
    /\ store = MemoryFs_new
    /\ task = [p \in Procs |-> Idle]
    /\ router = "silverbullet"
    /\ exchange = NoExchange

\* any method on /.proxy/{*url}: Proxy::proxy up to client.send
ProxySend ==
    /\ exchange.handler # "proxy.send"
    /\ \E method \in {"GET", "POST"}, host \in Hosts, headers \in HeaderMaps :
          LET request == [method |-> method, host |-> host,
                          headers |-> headers, body |-> <<>>]
          IN exchange' = Exchange(request, "proxy.send", NoCall,
                                  NoExchange.response, proxied_request(request))
    /\ UNCHANGED router
    /\ UNCHANGED <<layered, backend>>

\* the client's answer, and the response made of it
ProxyRespond ==
    /\ exchange.handler = "proxy.send"
    /\ \E sent \in Upstreams :
          exchange' = [exchange EXCEPT !.handler = "proxy",
                                       !.called = sent,
                                       !.response = routes_proxy(sent)]
    /\ UNCHANGED router
    /\ UNCHANGED <<layered, backend>>

NextProxy ==
    \/ ProxySend
    \/ ProxyRespond

SpecProxy == InitProxy /\ [][NextProxy]_vars

\* ------------------------------------------------------------ properties
NLayers == Len(layers)

\* the store of source i: 0 is the root, i >= 1 is layers[i]
Store(i) == IF i = 0 THEN root ELSE layers[i]

\* what source i answers to the call recorded in op
GetResp(i) == Source_get(Store(i), op.path, op.faults[i])

MetaResp(i) == Source_meta(Store(i), op.path, op.faults[i])

ListResp(i) == Source_list(Store(i), op.faults[i], op.twice)

Top(S) == CHOOSE i \in S : \A j \in S : j <= i

SameResult(r1, r2) ==
    /\ r1.ok = r2.ok
    /\ IF r1.ok THEN r2.ok /\ r1.val = r2.val ELSE ~r2.ok /\ r1.err = r2.err

Names(files) == {files[k].name : k \in 1..Len(files)}

\* C1: layered get returns the (content, FileMeta) of the last-added layer
\* whose get succeeds, and the root's result only when every layer's get
\* fails; the answer is computed from the sources' contents at the call.
C1_GetLastLayerWins ==
    op.name = "get" =>
        LET W == {i \in 1..NLayers : GetResp(i).ok}
        IN IF W # {} THEN SameResult(op.result, GetResp(Top(W)))
           ELSE SameResult(op.result, GetResp(0))

\* two layers and the root hold the path; the last-added layer answered
C1_Witness ==
    /\ op.name = "get"
    /\ NLayers >= 2
    /\ \A i \in 0..NLayers : GetResp(i).ok
    /\ op.result.ok
    /\ op.result.val.content = LayerContent(NLayers)

\* C2: for a path listed by more than one source, layered list reports the
\* FileMeta of the highest-priority source listing it: the last-added
\* layer over earlier layers, any layer over the root.
C2_ListReportsHighestPriority ==
    op.name = "list" =>
        \A k \in 1..Len(op.result.val) :
            LET name == op.result.val[k].name
                L == {i \in 0..NLayers :
                         ListResp(i).ok /\ name \in Names(ListResp(i).val)}
            IN L # {} /\ op.result.val[k] = Store(Top(L))[name].meta

\* C3: the result of layered list never holds two entries of one name.
C3_ListNamesUnique ==
    op.name = "list" =>
        /\ op.result.ok
        /\ \A j, k \in 1..Len(op.result.val) :
              op.result.val[j].name = op.result.val[k].name => j = k

\* a name listed twice by each of the root and two layers
C3_Witness ==
    /\ op.name = "list"
    /\ op.twice
    /\ NLayers >= 2
    /\ \E name \in Paths :
          /\ \A i \in 0..NLayers :
                ListResp(i).ok /\ name \in Names(ListResp(i).val)
          /\ name \in Names(op.result.val)

RECURSIVE SumLen(_, _)
SumLen(f, S) ==
    IF S = {} THEN 0
    ELSE LET i == CHOOSE x \in S : TRUE IN Len(f[i]) + SumLen(f, S \ {i})

\* the sources whose list succeeded in the call recorded in op
ListOk == {i \in 0..NLayers : ListResp(i).ok}

Listings == [i \in ListOk |-> ListResp(i).val]

NoCollision ==
    /\ ~op.twice
    /\ \A i, j \in ListOk :
          i # j => Names(Listings[i]) \cap Names(Listings[j]) = {}

\* C4: the names of layered list are the union of the names listed by the
\* sources whose list succeeds; without a collision the number of entries
\* is the sum of the sources' entry counts.
C4_ListIsUnion ==
    op.name = "list" =>
        /\ Names(op.result.val) = UNION {Names(Listings[i]) : i \in ListOk}
        /\ NoCollision => Len(op.result.val) = SumLen(Listings, ListOk)

\* the root and two layers list disjoint, non-empty sets of names
C4_Witness ==
    /\ op.name = "list"
    /\ NoCollision
    /\ Cardinality(ListOk) >= 2
    /\ \A i \in ListOk : Listings[i] # <<>>
    /\ Len(op.result.val) >= 2

\* C5: layered list returns Ok whatever sources fail; a failing source
\* contributes no entry and its error is not returned, a source whose list
\* succeeds contributes every entry it lists.
C5_ListToleratesFailures ==
    op.name = "list" =>
        /\ op.result.ok
        /\ \A i \in ListOk : Names(Listings[i]) \subseteq Names(op.result.val)
        /\ \A k \in 1..Len(op.result.val) :
              \E i \in ListOk : \E j \in 1..Len(Listings[i]) :
                  Listings[i][j] = op.result.val[k]
        /\ ListOk = {} => op.result.val = <<>>

\* the root fails, a layer fails, another layer lists an entry
C5_Witness ==
    /\ op.name = "list"
    /\ NLayers >= 2
    /\ op.faults[0] # "none"
    /\ \E i \in 1..NLayers : op.faults[i] # "none" /\ Store(i) # MemoryFs_new
    /\ \E i \in ListOk : Listings[i] # <<>>
    /\ op.result.ok
    /\ op.result.val # <<>>

\* every source fails its list, the overlay still answers Ok
C5_WitnessAllFail ==
    /\ op.name = "list"
    /\ NLayers >= 1
    /\ ListOk = {}
    /\ op.result.ok

\* what source i answers to the get or meta call recorded in op
ReadResp(i) == IF op.name = "get" THEN GetResp(i) ELSE MetaResp(i)

\* C6: layered get and meta return an error only when every layer and the
\* root fail for the path, and the error is then the root's error; no
\* layer's error, of whatever kind, is returned.
C6_OnlyRootErrorSurfaces ==
    (op.name \in {"get", "meta"} /\ ~op.result.ok) =>
        /\ \A i \in 0..NLayers : ~ReadResp(i).ok
        /\ SameResult(op.result, ReadResp(0))

\* two layers fail with kinds other than the root's NotFound
C6_Witness ==
    /\ op.name \in {"get", "meta"}
    /\ NLayers >= 2
    /\ ~op.result.ok
    /\ op.result.err = "NotFound"
    /\ \A i \in 1..NLayers : op.faults[i] \notin {"none", "NotFound"}

\* C7: layered meta returns the FileMeta of the last-added layer whose meta
\* succeeds, else the root's meta result; only the sources' meta outcomes
\* decide, so a layer whose get fails still answers meta.
C7_MetaLastLayerWins ==
    op.name = "meta" =>
        LET W == {i \in 1..NLayers : MetaResp(i).ok}
        IN IF W # {} THEN SameResult(op.result, MetaResp(Top(W)))
           ELSE SameResult(op.result, MetaResp(0))

\* the last-added layer answered meta; a get on which that layer fails
\* returns the FileMeta of another source
C7_Witness ==
    /\ op.name = "meta"
    /\ NLayers >= 2
    /\ op.result.ok
    /\ MetaResp(NLayers).ok
    /\ SameResult(op.result, MetaResp(NLayers))
    /\ \E gf \in AllFaults(0..NLayers) :
          LET g == layer_get(layers, root, op.path, gf).result
          IN gf[NLayers] # "none" /\ g.ok /\ g.val.meta # op.result.val

\* C8: after build the number and order of the layers are fixed, and no
\* list, get, meta, put or delete call changes a layer's entries: reads
\* change nothing, put and delete change the root only and call the root only.
C8_LayersUnchanged ==
    [][/\ built => (built' /\ Len(layers') = Len(layers))
       /\ op'.name \in CallNames => layers' = layers
       /\ op'.name \in {"list", "get", "meta"} => root' = root
       /\ op'.name \in {"put", "delete"} =>
             \A k \in 1..Len(op'.calls) : op'.calls[k].src = 0]_vars

\* a put on a path that both layers hold went to the root; the layers
\* still hold their own entries
C8_Witness ==
    /\ op.name = "put"
    /\ op.result.ok
    /\ NLayers >= 2
    /\ root[op.path].data = op.data
    /\ \A i \in 1..NLayers :
          op.path \in DOMAIN layers[i] /\ layers[i][op.path].data = LayerContent(i)

\* C9: layered put and delete return the root's result: they fail exactly
\* when the root's put or delete fails, with the root's error, whatever
\* the layers hold.
C9_WritesReturnRootResult ==
    [][/\ op'.name = "put" =>
             LET r == Source_put(root, op'.path, op'.data, IncomingFileMeta,
                                 op'.faults[0])
             IN SameResult(op'.result, r.result) /\ root' = r.files
       /\ op'.name = "delete" =>
             LET r == Source_delete(root, op'.path, op'.faults[0])
             IN SameResult(op'.result, r.result) /\ root' = r.files]_vars

\* delete of a path the root lacks fails with the root's NotFound although
\* a layer holds the path
C9_Witness ==
    /\ op.name = "delete"
    /\ op.faults[0] = "none"
    /\ ~op.result.ok
    /\ op.result.err = "NotFound"
    /\ \E i \in 1..NLayers : op.path \in DOMAIN layers[i]

\* a put fails with the root's error although a layer holds the path
C9_WitnessPut ==
    /\ op.name = "put"
    /\ ~op.result.ok
    /\ op.result.err = "PermissionDenied"
    /\ \E i \in 1..NLayers : op.path \in DOMAIN layers[i]

\* the layers holding a path
Holders(ls, path) == {i \in 1..Len(ls) : path \in DOMAIN ls[i]}

\* C10: a successful layered delete of a path held by the root and by a
\* layer removes the root's copy only; the next get of the path returns
\* the entry of the last-added layer holding it, and the next list names it.
C10_DeleteLeavesLayerCopy ==
    [][/\ (op'.name = "delete" /\ op'.result.ok
             /\ Holders(layers, op'.path) # {}) =>
             /\ op'.path \in DOMAIN root
             /\ op'.path \notin DOMAIN root'
             /\ layers' = layers
       /\ (op.name = "delete" /\ op.result.ok /\ Holders(layers, op.path) # {}
             /\ op'.name = "get" /\ op'.path = op.path) =>
             LET top == layers[Top(Holders(layers, op.path))][op.path]
             IN SameResult(op'.result,
                           Ok([content |-> top.data, meta |-> top.meta]))
       /\ (op.name = "delete" /\ op.result.ok /\ Holders(layers, op.path) # {}
             /\ op'.name = "list") =>
             op'.result.ok /\ op.path \in Names(op'.result.val)]_vars

\* a delete succeeded on a path that the root held and two layers hold
C10_Witness ==
    /\ op.name = "delete"
    /\ op.result.ok
    /\ op.path \notin DOMAIN root
    /\ Cardinality(Holders(layers, op.path)) >= 2

\* the paths held by the root and by no layer
RootOnly == {x \in DOMAIN root : Holders(layers, x) = {}}

\* the paths held by no source
Unheld(ls, r) == {x \in Paths : x \notin DOMAIN r /\ Holders(ls, x) = {}}

\* C11: a successful layered delete of a path held by the root and by no
\* layer leaves the path held by no source; from then on get and meta of
\* the path fail with NotFound and list does not name it, and only a put
\* of the path makes a source hold it again.
C11_DeletedStaysAbsent ==
    [][/\ (op'.name = "delete" /\ op'.result.ok
             /\ Holders(layers, op'.path) = {}) =>
             /\ op'.path \in DOMAIN root
             /\ op'.path \in Unheld(layers', root')
       /\ (op'.name \in {"get", "meta"} /\ op'.path \in Unheld(layers, root)) =>
             SameResult(op'.result, Err("NotFound"))
       /\ op'.name = "list" =>
             op'.result.ok /\ Names(op'.result.val) \cap Unheld(layers, root) = {}
       /\ built =>
             \A x \in Unheld(layers, root) :
                x \notin Unheld(layers', root') =>
                   op'.name = "put" /\ op'.path = x]_vars

\* below a layer, a delete succeeded on a path that the root held and no
\* layer holds
C11_Witness ==
    /\ op.name = "delete"
    /\ op.result.ok
    /\ NLayers >= 1
    /\ op.path \in Unheld(layers, root)
    /\ DOMAIN root # {}

\* C12: after a successful put(path, B) on a path that no layer holds, the
\* next get(path) returns content B and a FileMeta whose name is path and
\* whose size is the length of B; the FileMeta put returned has that size.
C12_PutThenGet ==
    [][(op.name = "put" /\ op.result.ok /\ Holders(layers, op.path) = {}
          /\ op'.name = "get" /\ op'.path = op.path) =>
          /\ op'.result.ok
          /\ op'.result.val.content = op.data
          /\ op'.result.val.meta.name = op.path
          /\ op'.result.val.meta.size = Len(op.data)
          /\ op.result.val.size = Len(op.data)
          /\ op.result.val.name = op.path]_vars

\* a put of the empty sequence on a path no layer holds, below a layer
C12_Witness ==
    /\ op.name = "put"
    /\ op.result.ok
    /\ op.data = <<>>
    /\ NLayers >= 1
    /\ Holders(layers, op.path) = {}
    /\ root[op.path].data = <<>>

\* C13: a layered put on a path that a layer holds succeeds whenever the
\* root's put does and stores the bytes in the root; get and meta of a
\* path a layer holds return the entry of the last-added layer holding it,
\* and list reports for it the FileMeta of a layer holding it.
C13_PutShadowedByLayer ==
    [][/\ (op'.name = "put" /\ Holders(layers, op'.path) # {}) =>
             /\ op'.result.ok = (op'.faults[0] = "none")
             /\ op'.result.ok =>
                   /\ root'[op'.path].data = op'.data
                   /\ layers' = layers
       /\ (op'.name = "get" /\ Holders(layers, op'.path) # {}) =>
             LET top == layers[Top(Holders(layers, op'.path))][op'.path]
             IN SameResult(op'.result,
                           Ok([content |-> top.data, meta |-> top.meta]))
       /\ (op'.name = "meta" /\ Holders(layers, op'.path) # {}) =>
             LET top == layers[Top(Holders(layers, op'.path))][op'.path]
             IN SameResult(op'.result, Ok(top.meta))
       /\ op'.name = "list" =>
             /\ op'.result.ok
             /\ \A x \in Paths : Holders(layers, x) # {} =>
                   \E k \in 1..Len(op'.result.val) :
                      /\ op'.result.val[k].name = x
                      /\ \E i \in Holders(layers, x) :
                            op'.result.val[k] = layers[i][x].meta]_vars

\* a put stored bytes in the root under a path that a layer holds with
\* another content
C13_Witness ==
    /\ op.name = "put"
    /\ op.result.ok
    /\ Holders(layers, op.path) # {}
    /\ \A i \in Holders(layers, op.path) :
          layers[i][op.path].data # root[op.path].data

\* C14: for a path held by the root and by no layer, layered get and meta
\* return what the root's get and meta return, and layered list holds the
\* root's FileMeta of the path whenever the root's list succeeds.
C14_RootOnlyPassThrough ==
    /\ (op.name = "get" /\ op.path \in RootOnly) =>
          SameResult(op.result, GetResp(0))
    /\ (op.name = "meta" /\ op.path \in RootOnly) =>
          SameResult(op.result, MetaResp(0))
    /\ (op.name = "list" /\ ListResp(0).ok) =>
          \A x \in RootOnly :
             \E k \in 1..Len(op.result.val) : op.result.val[k] = root[x].meta

\* meta of a path that only the root holds, below two layers, one of which
\* reported an error other than NotFound
C14_Witness ==
    /\ op.name = "meta"
    /\ NLayers >= 2
    /\ op.path \in RootOnly
    /\ op.result.ok
    /\ \E i \in 1..NLayers : op.faults[i] \notin {"none", "NotFound"}

Quiet(ls) == [i \in 0..Len(ls) |-> "none"]

\* C25: layered get and meta call the sources one at a time in the order
\* last-added layer, ..., first-added layer, root; every call but the last
\* failed, and the call that succeeds is the last one made, so each source
\* is called at most once and none below the one that answered.
C25_SourcesConsultedInOrder ==
    op.name \in {"get", "meta"} =>
        LET n == Len(op.calls)
        IN /\ n >= 1 /\ n <= NLayers + 1
           /\ \A k \in 1..n :
                 /\ op.calls[k].src = NLayers + 1 - k
                 /\ op.calls[k].method = op.name
                 /\ SameResult(op.calls[k].res, ReadResp(op.calls[k].src))
                 /\ k < n => ~op.calls[k].res.ok
           /\ SameResult(op.calls[n].res, op.result)
           /\ op.calls[n].src # 0 => op.calls[n].res.ok

\* the last-added layer failed, the layer below it answered, and the root,
\* which holds the path too, was not called
C25_Witness ==
    /\ op.name \in {"get", "meta"}
    /\ NLayers >= 2
    /\ Len(op.calls) = 2
    /\ op.result.ok
    /\ op.path \in DOMAIN root
    /\ op.faults[0] = "none"

\* C29: a layered delete of a path that a layer holds and the root does not
\* returns the root's NotFound and changes neither the root nor a layer, so
\* get, meta and list answer after it as they did before it.
C29_LayerPathUndeletable ==
    [][(op'.name = "delete" /\ op'.path \notin DOMAIN root
          /\ Holders(layers, op'.path) # {}) =>
          /\ ~op'.result.ok
          /\ op'.faults[0] = "none" => op'.result.err = "NotFound"
          /\ root' = root
          /\ layers' = layers
          /\ \A path \in Paths :
                /\ layer_get(layers', root', path, Quiet(layers')).result
                      = layer_get(layers, root, path, Quiet(layers)).result
                /\ layer_meta(layers', root', path, Quiet(layers')).result
                      = layer_meta(layers, root, path, Quiet(layers)).result
          /\ layer_list(layers', root', Quiet(layers'), FALSE).result
                = layer_list(layers, root, Quiet(layers), FALSE).result]_vars

\* a delete of a path that only a layer holds has returned NotFound
C29_Witness ==
    /\ op.name = "delete"
    /\ op.path \notin DOMAIN root
    /\ Holders(layers, op.path) # {}
    /\ op.faults[0] = "none"
    /\ SameResult(op.result, Err("NotFound"))

Without(ls, i, path) ==
    [ls EXCEPT ![i] = MemoryFs_delete(ls[i], path).files]

LayerFaults == {"PermissionDenied", "Io", "Other"}

Entry(files, name) ==
    {files[k] : k \in {j \in 1..Len(files) : files[j].name = name}}

\* the same call on the composition in which layer i answers and does not
\* hold the path
Absent(i, path) ==
    LET ls == Without(layers, i, path)
        faults == [op.faults EXCEPT ![i] = "none"]
    IN CASE op.name = "get" -> layer_get(ls, root, path, faults).result
         [] op.name = "meta" -> layer_meta(ls, root, path, faults).result
         [] OTHER -> layer_list(ls, root, faults, op.twice).result

\* C30 as stated: when a layer fails a get, meta or list with
\* PermissionDenied, Io or Other, the call returns what it returns on the
\* composition in which that layer answers and does not hold the path; for
\* list, the whole listing is the same.
C30_FaultIsAbsence ==
    \A i \in 1..NLayers :
        (op.name \in {"get", "meta", "list"} /\ op.faults[i] \in LayerFaults) =>
            /\ op.name \in {"get", "meta"} =>
                  SameResult(op.result, Absent(i, op.path))
            /\ op.name = "list" =>
                  \A path \in Paths : SameResult(op.result, Absent(i, path))

\* C30 amended: get and meta return the same result in both compositions,
\* and list reports the same entry for the path (the same FileMeta or none)
\* in both; entries of other paths that the failing layer holds are missing
\* from the listing of the composition in which it fails.
C30_FaultIsAbsenceForThePath ==
    \A i \in 1..NLayers :
        (op.name \in {"get", "meta", "list"} /\ op.faults[i] \in LayerFaults) =>
            /\ op.name \in {"get", "meta"} =>
                  SameResult(op.result, Absent(i, op.path))
            /\ op.name = "list" =>
                  \A path \in Paths :
                     LET absent == Absent(i, path)
                     IN /\ op.result.ok /\ absent.ok
                        /\ Entry(op.result.val, path) = Entry(absent.val, path)

\* a layer holding the path failed the call and a source below it answered
\* with another entry
C30_Witness ==
    \E i \in 1..NLayers :
        /\ op.name \in {"get", "meta", "list"}
        /\ op.faults[i] \in LayerFaults
        /\ \/ /\ op.name \in {"get", "meta"}
              /\ op.path \in DOMAIN layers[i]
              /\ op.result.ok
           \/ /\ op.name = "list"
              /\ \E path \in DOMAIN layers[i] : Entry(op.result.val, path) # {}

\* ---- backends
\* caller p makes the step from pc0 to pc1 of a call named name
Steps(p, name, pc0, pc1) ==
    /\ task[p].pc = pc0
    /\ task'[p].pc = pc1
    /\ task'[p].name = name

IsNotFound(r) == ~r.ok /\ r.err = "NotFound"

\* C15: on the opendal and Cloudflare adapters a delete of a path with no
\* entry returns NotFound and changes nothing; a delete that returns
\* leaves no entry at its path, and only a put stores an entry where there
\* was none, so the second of two successive deletes returns NotFound.
C15_DeleteAbsentNotFound ==
    [][\A p \in Procs :
         /\ (task[p].pc = "idle" /\ task'[p].name = "delete") =>
               IF task'[p].path \in DOMAIN store
               THEN task'[p].pc = "delete"
               ELSE /\ task'[p].pc = "done"
                    /\ IsNotFound(task'[p].result)
                    /\ store' = store
         /\ (task[p].pc # "done" /\ task'[p].pc = "done"
                /\ task'[p].name = "delete") =>
               /\ task'[p].path \notin DOMAIN store'
               /\ task'[p].result.ok \/ IsNotFound(task'[p].result)
         /\ \A x \in ((DOMAIN store') \ (DOMAIN store)) \cap BackendFiles :
               \E q \in Procs :
                  \/ task[q].name = "put" /\ task[q].path = x
                  \/ task'[q].name = "put" /\ task'[q].path = x]_vars

\* a delete found no entry at its path after the other caller's delete of
\* the path had succeeded
C15_Witness ==
    /\ Writable
    /\ task[1].pc = "done" /\ task[1].name = "delete" /\ task[1].result.ok
    /\ task[2].pc = "done" /\ task[2].name = "delete"
    /\ task[2].path = task[1].path
    /\ IsNotFound(task[2].result)
    /\ store # MemoryFs_new

\* caller p's put stores its entry in this step: the opendal writer is
\* closed, or the bucket's put succeeds
Commits(p) ==
    \/ Steps(p, "put", "close", "stat")
    \/ fs.kind = "cloudflare" /\ Steps(p, "put", "idle", "done")
          /\ task'[p].result.ok

\* the entries of a listing that are named name
Named(files, name) == {k \in 1..Len(files) : files[k].name = name}

\* C16: when a put stores its entry, whatever was at the path before, a get
\* of the path returns exactly the bytes of the put's stream, in order, with
\* size equal to their number, list holds exactly one entry named path, and
\* no other entry changes.
C16_PutReplaces ==
    [][\A p \in Procs : Commits(p) =>
          LET path == task'[p].path
              B2 == Bytes(task'[p].data)
              l == backend_list(fs.kind, store')
          IN /\ \A r \in backend_get(fs.kind, store', path) :
                   /\ r.ok
                   /\ ~r.val.failed
                   /\ r.val.content = B2
                   /\ r.val.meta.name = path
                   /\ r.val.meta.size = Len(B2)
             /\ l.ok /\ Cardinality(Named(l.val, path)) = 1
             /\ \A x \in BackendFiles \ {path} :
                   backend_get(fs.kind, store', x) = backend_get(fs.kind, store, x)]_vars

\* a put of two bytes has returned with size 2, and a put of no bytes on
\* the same path has stored its entry since, which is empty
C16_Witness ==
    \E p, q \in Procs :
       /\ task[p].pc = "done" /\ task[p].name = "put" /\ task[p].result.ok
       /\ task[p].result.val.size = 2
       /\ task[q].pc = "stat" /\ task[q].name = "put"
       /\ task[q].path = task[p].path
       /\ Bytes(task[q].data) = <<>>
       /\ store[task[q].path].data = <<>>

\* the position of the first failure of a stream, 0 if it has none
FirstFailure(data) ==
    IF \A k \in 1..Len(data) : data[k].ok THEN 0
    ELSE CHOOSE k \in 1..Len(data) :
            ~data[k].ok /\ \A j \in 1..(k - 1) : data[j].ok

C26_CloudflarePutSizeRule ==
    [][\A p \in Procs :
          (fs.kind = "cloudflare" /\ Steps(p, "put", "idle", "done")) =>
             LET t == task'[p]
                 B == Bytes(t.data)
             IN /\ (t.size = {} /\ ~fs.allow_buffered_upload) =>
                      /\ SameResult(t.result, Err("Other"))
                      /\ t.polled = 0
                      /\ store' = store
                /\ (t.size = {} /\ fs.allow_buffered_upload
                      /\ FirstFailure(t.data) = 0) =>
                      /\ t.result.ok
                      /\ t.polled = Len(t.data)
                      /\ store' = Bucket_put(store, t.path, B)
                      /\ t.result.val.size = Len(B)
                /\ (t.size # {} /\ FirstFailure(t.data) = 0) =>
                      /\ t.result.ok
                      /\ store' = Bucket_put(store, t.path, B)
                      /\ t.size = {t.result.val.size}]_vars

\* a put of a two-chunk stream without a size was refused, and the entry it
\* would have replaced is still there
C26_Witness ==
    \E p \in Procs :
       /\ fs.kind = "cloudflare" /\ ~fs.allow_buffered_upload
       /\ task[p].pc = "done" /\ task[p].name = "put"
       /\ task[p].size = {}
       /\ Len(task[p].data) = 2 /\ FirstFailure(task[p].data) = 0
       /\ task[p].result = Err("Other")
       /\ task[p].path \in DOMAIN store
       /\ task[3 - p].pc = "idle"

\* C27: a delete that removes an entry another delete of the same path has
\* already removed and answered Ok for returns NotFound: of two concurrent
\* deletes of one entry at most one returns Ok.
C27_OneDeleteWins ==
    [][\A p, q \in Procs :
          (/\ p # q
           /\ task[p].pc = "done" /\ task[p].name = "delete"
           /\ task[p].result.ok
           /\ task[q].pc = "delete" /\ task[q].path = task[p].path
           /\ task[p].path \notin DOMAIN store
           /\ task'[q].pc = "done") =>
             IsNotFound(task'[q].result)]_vars

\* C28: an opendal put whose stream did not fail, so that its writer was
\* written and closed, returns Ok with size = length of the bytes it wrote.
C28_PutReturnsOwnSize ==
    \A p \in Procs :
       (fs.kind = "opendal" /\ task[p].pc = "done" /\ task[p].name = "put"
          /\ FirstFailure(task[p].data) = 0) =>
          /\ task[p].result.ok
          /\ task[p].result.val.size = Len(Bytes(task[p].data))

\* C18: every get that returns Ok returns a FileMeta whose size is the
\* number of bytes its stream yields, whatever the other caller's put and
\* delete do meanwhile.
C18_GetSizeMatchesStream ==
    \A p \in Procs :
       (task[p].pc = "done" /\ task[p].name = "get" /\ task[p].result.ok
          /\ task[p].path \in BackendFiles) =>
          /\ ~task[p].result.val.failed
          /\ task[p].result.val.meta.size = Len(task[p].result.val.content)

\* C19: in every state of a backend, get fails with NotFound exactly when
\* meta does, and that is exactly when the backend holds no entry at the
\* path.
C19_GetMetaNotFoundAlike ==
    fs.kind \in Kinds =>
       \A path \in BackendPaths :
          LET m == backend_meta(fs.kind, store, path)
          IN /\ IsNotFound(m) <=> path \notin DOMAIN store
             /\ \A r \in backend_get(fs.kind, store, path) :
                   IsNotFound(r) <=> IsNotFound(m)

\* on the opendal adapter and on the embedded bundle, a get and a meta of
\* one absent path have both failed with NotFound while another path is held
C19_Witness ==
    /\ fs.kind \in {"opendal", "embed"}
    /\ task[1].pc = "done" /\ task[1].name = "get"
    /\ task[2].pc = "done" /\ task[2].name = "meta"
    /\ task[1].path = task[2].path
    /\ task[1].path \notin DOMAIN store
    /\ IsNotFound(task[1].result) /\ IsNotFound(task[2].result)
    /\ store # MemoryFs_new

\* C20: in every state of a backend, each FileMeta that list returns names
\* an entry whose get succeeds and whose stream yields its content.
C20_ListedIsRetrievable ==
    fs.kind \in Kinds =>
       LET l == backend_list(fs.kind, store)
       IN l.ok =>
             \A k \in 1..Len(l.val) :
                \A r \in backend_get(fs.kind, store, l.val[k].name) :
                   r.ok /\ ~r.val.failed

\* ---- http server
Failed == exchange.handler \in {"list", "get", "put", "delete"}
              /\ ~exchange.called.ok

\* the error kinds opendal reports
NativeErrors == {"NotFound", "PermissionDenied", "Unexpected", "RateLimited",
                 "IsADirectory", "ConditionNotMatch"}

\* C21: a handler whose filesystem call failed answers 404 for NotFound, 403
\* for PermissionDenied and 500 for Io and Other, never a 2xx status; the
\* opendal adapter turns native NotFound and PermissionDenied into the same
\* kinds and every other native error into Other.
C21_ErrorStatusByKind ==
    /\ Failed =>
          /\ exchange.called.err = "NotFound" => exchange.response.status = 404
          /\ exchange.called.err = "PermissionDenied" =>
                exchange.response.status = 403
          /\ exchange.called.err \in {"Io", "Other"} =>
                exchange.response.status = 500
          /\ exchange.response.status \notin 200..299
          /\ exchange.response.body.kind = "empty"
    /\ \A kind \in NativeErrors :
          from_opendal_Error(kind) =
             IF kind \in {"NotFound", "PermissionDenied"} THEN kind ELSE "Other"

\* a delete refused by the filesystem was answered 403
C21_Witness ==
    /\ exchange.handler = "delete"
    /\ exchange.called = Err("PermissionDenied")
    /\ exchange.response.status = 403

\* C22: in both implementations the list handler answers 200 with a JSON
\* array of every FileMeta fs.list() returned, each once, ascending by name;
\* when fs.list() fails it answers the error and no listing.
C22_ListSortedArray ==
    exchange.handler = "list" =>
        IF exchange.called.ok
        THEN /\ exchange.response.status = 200
             /\ exchange.response.body.kind = "array"
             /\ exchange.response.body.val = MemoryFs_list(root).val
        ELSE /\ exchange.response.status # 200
             /\ exchange.response.body.kind = "empty"

\* the methods the options handler names in its Allow header
Advertised ==
    {server_options.headers.allow[i] :
        i \in 1..Len(server_options.headers.allow)}

\* C23: in both implementations a request on a file path with a method the
\* Allow header names reaches a handler; a DELETE reaches the filesystem's
\* delete, and a delete that succeeds is answered 200 with body "OK".
C23_AdvertisedMethodsDispatched ==
    (exchange.handler # "none" /\ exchange.request.route = "file"
        /\ exchange.request.method \in Advertised) =>
        /\ exchange.handler # "method_not_allowed"
        /\ exchange.response.status # 405
        /\ exchange.request.method = "DELETE" =>
              /\ exchange.handler = "delete"
              /\ exchange.called.ok =>
                    /\ exchange.response.status = 200
                    /\ exchange.response.body = Body("text", <<"OK">>)
                    /\ exchange.request.path \notin DOMAIN root

\* a name that starts with "x-proxy-header-", and what follows the prefix
HasPrefix(name) ==
    Len(name) >= 4 /\ name[1] = "x" /\ name[2] = "proxy" /\ name[3] = "header"

Rest(name) == [i \in 1..(Len(name) - 3) |-> name[i + 3]]

\* the requests that differ from the served one in non-prefixed headers only
Alike ==
    {[exchange.request EXCEPT !.headers = h] : h \in
        {g \in HeaderMaps :
            /\ {n \in DOMAIN g : HasPrefix(n)}
                  = {n \in DOMAIN exchange.request.headers : HasPrefix(n)}
            /\ \A n \in DOMAIN g :
                  HasPrefix(n) => g[n] = exchange.request.headers[n]}}

\* C24 as stated: the request handed to the client carries every request
\* header whose name starts with x-proxy-header-, under the name without the
\* prefix and with the same value, and no other header; requests that
\* differ in other headers only are handed on identically.
C24_ForwardsPrefixedHeaders ==
    exchange.handler \in {"proxy.send", "proxy"} =>
        LET h == exchange.request.headers
            u == exchange.upstream.headers
        IN /\ \A n \in DOMAIN h :
                 HasPrefix(n) => Rest(n) \in DOMAIN u /\ u[Rest(n)] = h[n]
           /\ \A m \in DOMAIN u :
                 \E n \in DOMAIN h : HasPrefix(n) /\ Rest(n) = m
           /\ \A request \in Alike : proxied_request(request) = exchange.upstream

\* C24 amended: the same, for the headers whose name goes on after the
\* prefix; a header named exactly x-proxy-header- is not forwarded.
C24_ForwardsNamedPrefixedHeaders ==
    exchange.handler \in {"proxy.send", "proxy"} =>
        LET h == exchange.request.headers
            u == exchange.upstream.headers
            named == {n \in DOMAIN h : HasPrefix(n) /\ Rest(n) # <<"">>}
        IN /\ \A n \in named : Rest(n) \in DOMAIN u /\ u[Rest(n)] = h[n]
           /\ \A m \in DOMAIN u : \E n \in named : Rest(n) = m
           /\ \A request \in Alike : proxied_request(request) = exchange.upstream

\* a request with x-proxy-header-authorization, x-proxy-header- and its own
\* authorization header was handed on with the first one only
C24_Witness ==
    /\ exchange.handler = "proxy"
    /\ DOMAIN exchange.request.headers
          = {Prefix \o <<"authorization">>, Prefix \o <<"">>, <<"authorization">>}
    /\ exchange.request.headers[<<"authorization">>] = "v"
    /\ exchange.upstream.headers = [n \in {<<"authorization">>} |-> "w"]
    /\ exchange.called.ok

====
